---- MODULE Spec2Model ----
(***************************************************************************)
(* systemd-gen.py: generate a user systemd service unit and, optionally,   *)
(* a timer unit, under ~/.config/systemd/user.                             *)
(*                                                                         *)
(* Text is a sequence of tokens: every character of an input value is one  *)
(* token, every literal piece of a template is one token.  An optional     *)
(* value is a sequence of length 0 (None) or 1 (the value), so that None   *)
(* and the empty string are different values.                              *)
(***************************************************************************)
EXTENDS Integers, Sequences, FiniteSets, TLC

VARIABLES
    argv,       \* argv[p]: the command line of invocation p
    pc,         \* pc[p]: position of invocation p in main()
    args,       \* args[p]: the Args object built by Args.__init__
    dirExists,  \* does ~/.config/systemd/user exist
    files,      \* files[<<name, ext>>]: None, or Some(content)
    out,        \* out[p]: lines printed on standard output
    err,        \* err[p]: lines printed on standard error
    exitCode,   \* exitCode[p]: None while running, Some(code) at exit
    ops,        \* ops[p]: file-system calls made by invocation p, in order
    lastWrite,  \* lastWrite[path]: invocation whose write came last, 0 if none
    snap        \* the files as the first invocation left them

vars == <<argv, pc, args, dirExists, files, out, err, exitCode, ops, lastWrite, snap>>

----------------------------------------------------------------------------
(* Bounds *)

MaxLen == 2         \* longest --timer value

----------------------------------------------------------------------------
(* Values *)

None == <<>>
Some(v) == <<v>>

Procs == {1, 2}

Chars == {"a", "b"}

RECURSIVE StrsOfLen(_)
StrsOfLen(n) ==
    IF n = 0 THEN {<<>>}
    ELSE {<<c>> \o s : c \in Chars, s \in StrsOfLen(n - 1)}

StrsUpTo(n) == UNION {StrsOfLen(k) : k \in 0..n}

Names == {<<"foo">>, <<"bar">>}

Commands == {<<"x">>, <<"x", " ", "y">>}

Descriptions == {<<"d">>}

TimerSpecs == StrsUpTo(MaxLen)

\* the current directory of the process and the symbolic links of the file system
Cwd == <<"home", "u">>

IsLink(path) == path = <<"lnk">>

ReadLink(path) == <<"/", "tmp">>

WorkingDirs ==
    { <<"/", "tmp">>,
      <<"proj">>,
      <<"/", "lnk", "/", ".">>,
      <<"..", "/", "lnk", "/", "/", "w">> }

Exts == {"service", "timer"}

Paths == Names \X Exts

\* what a unit file left by something else holds
OldContent == <<"[Unit]\n", "old", "\n">>

----------------------------------------------------------------------------
(* Template Renderer *)

create_service_file(working_dir, command, description) ==
    <<"[Unit]\n", "Description=">> \o description \o
    <<"\n", "After=network.target\n\n[Service]\nType=simple\n", "WorkingDirectory=">>
    \o working_dir \o
    <<"\n", "ExecStart=">> \o command \o
    <<"\n", "Restart=on-failure\n\n[Install]\nWantedBy=default.target\n">>

create_timer_file(name, on_calendar) ==
    <<"[Unit]\n", "Description=Timer for ">> \o name \o <<" service", "\n\n[Timer]\n",
      "OnCalendar=">> \o on_calendar \o
    <<"\n", "Persistent=true\n\n[Install]\nWantedBy=timers.target\n">>

----------------------------------------------------------------------------
(* os.path.realpath *)

\* the components of a path string, split at "/"
RECURSIVE Split(_)
Split(s) ==
    IF s = <<>> THEN <<>>
    ELSE IF Head(s) = "/" THEN Split(Tail(s))
    ELSE <<Head(s)>> \o Split(Tail(s))

IsAbs(s) == s # <<>> /\ Head(s) = "/"

RECURSIVE JoinRealpath(_, _)
JoinRealpath(path, rest) ==
    IF rest = <<>> THEN path
    ELSE LET name == Head(rest)
             more == Tail(rest)
         IN  IF name = "." THEN JoinRealpath(path, more)
             ELSE IF name = ".."
                  THEN JoinRealpath(IF path = <<>> THEN <<>>
                                    ELSE SubSeq(path, 1, Len(path) - 1), more)
             ELSE IF IsLink(path \o <<name>>)
                  THEN JoinRealpath(IF IsAbs(ReadLink(path \o <<name>>)) THEN <<>> ELSE path,
                                    Split(ReadLink(path \o <<name>>)) \o more)
             ELSE JoinRealpath(path \o <<name>>, more)

RECURSIVE PathStr(_)
PathStr(comps) ==
    IF comps = <<>> THEN <<>>
    ELSE <<"/", Head(comps)>> \o PathStr(Tail(comps))

realpath(s) ==
    LET comps == JoinRealpath(IF IsAbs(s) THEN <<>> ELSE Cwd, Split(s))
    IN  IF comps = <<>> THEN <<"/">> ELSE PathStr(comps)

----------------------------------------------------------------------------
(* Argument Resolver *)

ArgvSet ==
    [ name        : {None} \cup {Some(n) : n \in Names},
      working_dir : {None} \cup {Some(w) : w \in WorkingDirs},
      command     : {None} \cup {Some(c) : c \in Commands},
      timer       : {None} \cup {Some(t) : t \in TimerSpecs},
      description : {None} \cup {Some(d) : d \in Descriptions} ]

RequiredGiven(a) == a.name # None /\ a.working_dir # None /\ a.command # None

\* the default of create_service_file's own parameter, were argparse to give none
DefaultDescription_function_default == <<"My custom service">>

DefaultDescription == <<"A custom systemd service">>

\* the Args object argparse builds from a command line that has the required flags
ParsedArgs(a) ==
    [ name        |-> a.name[1],
      working_dir |-> a.working_dir[1],
      command     |-> a.command[1],
      timer       |-> a.timer,
      description |-> IF a.description = None THEN DefaultDescription
                      ELSE a.description[1] ]

NoArgs == [name |-> <<>>, working_dir |-> <<>>, command |-> <<>>,
           timer |-> None, description |-> <<>>]

\* Python's truth value of an Optional[str]
Truthy(opt) == opt # None /\ opt[1] # <<>>

----------------------------------------------------------------------------
(* File Writer and main *)

\* both unit files given the .timer extension
service_filename_timer_ext(p) == <<args[p].name, "timer">>

service_filename(p) == <<args[p].name, "service">>

timer_filename(p) == <<args[p].name, "timer">>

service_content(p) ==
    create_service_file(realpath(args[p].working_dir), args[p].command,
                        args[p].description)

timer_content(p) == create_timer_file(args[p].name, args[p].timer[1])

\* the timer saved under service_filename
filename_always_service(p) == service_filename(p)

\* the file save_file is working on, and the text it was called with
InService(p) == pc[p] \in {"open_service", "write_service", "close_service", "print_service"}

filename(p) == IF InService(p) THEN service_filename(p) ELSE timer_filename(p)

content(p) == IF InService(p) THEN service_content(p) ELSE timer_content(p)

Op(kind, path, ok) == [op |-> kind, path |-> path, ok |-> ok]

NoPath == <<<<>>, "">>

\* an uncaught exception: the interpreter prints a traceback and exits with 1
Raise(p, what) ==
    /\ pc' = [pc EXCEPT ![p] = "done"]
    /\ err' = [err EXCEPT ![p] = Append(@, <<"Traceback", what>>)]
    /\ exitCode' = [exitCode EXCEPT ![p] = Some(1)]

\* main returns: the interpreter exits with 0
Return(p) ==
    /\ pc' = [pc EXCEPT ![p] = "done"]
    /\ exitCode' = [exitCode EXCEPT ![p] = Some(0)]

\* the directory made before the command line is validated
ParseArgs_after_makedirs(p) ==
    /\ pc[p] = "start"
    /\ dirExists' = TRUE
    /\ IF RequiredGiven(argv[p])
       THEN /\ args' = [args EXCEPT ![p] = ParsedArgs(argv[p])]
            /\ pc' = [pc EXCEPT ![p] = "makedirs"]
            /\ UNCHANGED <<err, exitCode>>
       ELSE /\ pc' = [pc EXCEPT ![p] = "done"]
            /\ err' = [err EXCEPT ![p] = Append(@, <<"usage", "error: the following arguments are required">>)]
            /\ exitCode' = [exitCode EXCEPT ![p] = Some(2)]
            /\ UNCHANGED args
    /\ UNCHANGED <<argv, files, out, ops, lastWrite, snap>>

\* Args.__init__: parser.parse_args() exits with 2 when a required flag is missing
ParseArgs(p) ==
    /\ pc[p] = "start"
    /\ IF RequiredGiven(argv[p])
       THEN /\ args' = [args EXCEPT ![p] = ParsedArgs(argv[p])]
            /\ pc' = [pc EXCEPT ![p] = "makedirs"]
            /\ UNCHANGED <<err, exitCode>>
       ELSE /\ pc' = [pc EXCEPT ![p] = "done"]
            /\ err' = [err EXCEPT ![p] = Append(@, <<"usage", "error: the following arguments are required">>)]
            /\ exitCode' = [exitCode EXCEPT ![p] = Some(2)]
            /\ UNCHANGED args
    /\ UNCHANGED <<argv, dirExists, files, out, ops, lastWrite, snap>>

\* os.makedirs(os.path.dirname(service_filename), exist_ok=True)
Makedirs(p) ==
    /\ pc[p] = "makedirs"
    /\ dirExists' = TRUE
    /\ ops' = [ops EXCEPT ![p] = Append(@, Op("makedirs", NoPath, TRUE))]
    /\ pc' = [pc EXCEPT ![p] = "open_service"]
    /\ UNCHANGED <<argv, args, files, out, err, exitCode, lastWrite, snap>>

MakedirsFail(p) ==
    /\ pc[p] = "makedirs"
    /\ ~dirExists
    /\ ops' = [ops EXCEPT ![p] = Append(@, Op("makedirs", NoPath, FALSE))]
    /\ Raise(p, "makedirs")
    /\ UNCHANGED <<argv, args, dirExists, files, out, lastWrite, snap>>

\* the file opened for appending
OpenMode_append == "a"

\* the mode save_file opens the file in
OpenMode == "w"

\* every write lands at the end of the file, as with O_APPEND
Overlay_append(old, text) == old \o text

\* the text a file holds after text is written through a descriptor at offset 0
\* (mode "w"), or through a descriptor that appends (mode "a")
Overlay(old, text) ==
    IF OpenMode = "a" THEN old \o text
    ELSE text \o SubSeq(old, Len(text) + 1, Len(old))

\* save_file: open(filename, "w") creates the file, or truncates the one there
save_file_open(p) ==
    /\ pc[p] \in {"open_service", "open_timer"}
    /\ dirExists
    /\ files' = [files EXCEPT ![filename(p)] =
                    IF @ = None \/ OpenMode = "w" THEN Some(<<>>) ELSE @]
    /\ ops' = [ops EXCEPT ![p] = Append(@, Op("open", filename(p), TRUE))]
    /\ pc' = [pc EXCEPT ![p] = IF InService(p) THEN "write_service" ELSE "write_timer"]
    /\ UNCHANGED <<argv, args, dirExists, out, err, exitCode, lastWrite, snap>>

save_file_open_fail(p) ==
    /\ pc[p] \in {"open_service", "open_timer"}
    /\ ops' = [ops EXCEPT ![p] = Append(@, Op("open", filename(p), FALSE))]
    /\ Raise(p, "open")
    /\ UNCHANGED <<argv, args, dirExists, files, out, lastWrite, snap>>

\* save_file: f.write(content) reaches the file at offset 0 of the descriptor;
\* a file unlinked since the open stays absent from the directory
save_file_write(p) ==
    /\ pc[p] \in {"write_service", "write_timer"}
    /\ files' = [files EXCEPT ![filename(p)] =
                    IF @ = None THEN None ELSE Some(Overlay(@[1], content(p)))]
    /\ lastWrite' = [lastWrite EXCEPT ![filename(p)] = p]
    /\ ops' = [ops EXCEPT ![p] = Append(@, Op("write", filename(p), TRUE))]
    /\ pc' = [pc EXCEPT ![p] = IF InService(p) THEN "close_service" ELSE "close_timer"]
    /\ UNCHANGED <<argv, args, dirExists, out, err, exitCode, snap>>

\* the exception of a failed write caught and ignored
save_file_write_fail_swallowed(p) ==
    /\ pc[p] \in {"write_service", "write_timer"}
    /\ ops' = [ops EXCEPT ![p] = Append(@, Op("write", filename(p), FALSE))]
    /\ pc' = [pc EXCEPT ![p] = IF InService(p) THEN "close_service" ELSE "close_timer"]
    /\ UNCHANGED <<argv, args, dirExists, files, out, err, exitCode, lastWrite, snap>>

save_file_write_fail(p) ==
    /\ pc[p] \in {"write_service", "write_timer"}
    /\ ops' = [ops EXCEPT ![p] = Append(@, Op("write", filename(p), FALSE))]
    /\ Raise(p, "write")
    /\ UNCHANGED <<argv, args, dirExists, files, out, lastWrite, snap>>

\* save_file: the with block closes the file
save_file_close(p) ==
    /\ pc[p] \in {"close_service", "close_timer"}
    /\ ops' = [ops EXCEPT ![p] = Append(@, Op("close", filename(p), TRUE))]
    /\ pc' = [pc EXCEPT ![p] = IF InService(p) THEN "print_service" ELSE "print_timer"]
    /\ UNCHANGED <<argv, args, dirExists, files, out, err, exitCode, lastWrite, snap>>

\* print(f"Service file saved to {service_filename}")
PrintServiceSaved(p) ==
    /\ pc[p] = "print_service"
    /\ out' = [out EXCEPT ![p] = Append(@, <<"Service file saved to ", service_filename(p)>>)]
    /\ pc' = [pc EXCEPT ![p] = "if_timer"]
    /\ UNCHANGED <<argv, args, dirExists, files, err, exitCode, ops, lastWrite, snap>>

\* if args.timer:
IfTimer(p) ==
    /\ pc[p] = "if_timer"
    /\ IF Truthy(args[p].timer)
       THEN pc' = [pc EXCEPT ![p] = "exists"] /\ UNCHANGED exitCode
       ELSE Return(p)
    /\ UNCHANGED <<argv, args, dirExists, files, out, err, ops, lastWrite, snap>>

\* the result of os.path.exists ignored
CheckExists_unchecked(p) ==
    /\ pc[p] = "exists"
    /\ ops' = [ops EXCEPT ![p] = Append(@, Op("exists", service_filename(p),
                                              files[service_filename(p)] # None))]
    /\ pc' = [pc EXCEPT ![p] = "open_timer"]
    /\ UNCHANGED <<argv, args, dirExists, files, out, err, exitCode, lastWrite, snap>>

\* if not os.path.exists(service_filename): print(Error ...); return
CheckExists(p) ==
    /\ pc[p] = "exists"
    /\ ops' = [ops EXCEPT ![p] = Append(@, Op("exists", service_filename(p),
                                              files[service_filename(p)] # None))]
    /\ IF files[service_filename(p)] = None
       THEN /\ out' = [out EXCEPT ![p] = Append(@, <<"Error: Service file ", service_filename(p), " does not exist. Please create the service first.">>)]
            /\ Return(p)
       ELSE /\ pc' = [pc EXCEPT ![p] = "open_timer"]
            /\ UNCHANGED <<out, exitCode>>
    /\ UNCHANGED <<argv, args, dirExists, files, err, lastWrite, snap>>

\* print(f"Timer file saved to {timer_filename}"), the last statement of main
PrintTimerSaved(p) ==
    /\ pc[p] = "print_timer"
    /\ out' = [out EXCEPT ![p] = Append(@, <<"Timer file saved to ", timer_filename(p)>>)]
    /\ Return(p)
    /\ UNCHANGED <<argv, args, dirExists, files, err, ops, lastWrite, snap>>

\* the tool is started a second time, on the same command line, after the first run
SecondRun ==
    /\ pc[1] = "done"
    /\ pc[2] = "wait"
    /\ pc' = [pc EXCEPT ![2] = "start"]
    /\ snap' = [files |-> files, dir |-> dirExists]
    /\ UNCHANGED <<argv, args, dirExists, files, out, err, exitCode, ops, lastWrite>>

\* something else removes a service file
EnvRemove ==
    /\ \E path \in Paths :
          /\ path[2] = "service"
          /\ files[path] # None
          /\ files' = [files EXCEPT ![path] = None]
    /\ UNCHANGED <<argv, pc, args, dirExists, out, err, exitCode, ops, lastWrite, snap>>

----------------------------------------------------------------------------
(* Specifications *)

Blank ==
    /\ args = [p \in Procs |-> NoArgs]
    /\ out = [p \in Procs |-> <<>>]
    /\ err = [p \in Procs |-> <<>>]
    /\ exitCode = [p \in Procs |-> None]
    /\ ops = [p \in Procs |-> <<>>]
    /\ lastWrite = [path \in Paths |-> 0]
    /\ snap = [files |-> [path \in Paths |-> None], dir |-> FALSE]

\* the unit directory before the tool runs: absent, or holding some unit files
InitFiles ==
    /\ dirExists \in BOOLEAN
    /\ files \in [Paths -> {None, Some(OldContent)}]
    /\ ~dirExists => \A path \in Paths : files[path] = None

\* one invocation, then the same invocation again
Init ==
    /\ \E a \in ArgvSet : argv = [p \in Procs |-> a]
    /\ pc = (1 :> "start") @@ (2 :> "wait")
    /\ InitFiles
    /\ Blank

Step(p) ==
    \/ ParseArgs(p)
    \/ Makedirs(p)
    \/ MakedirsFail(p)
    \/ save_file_open(p)
    \/ save_file_open_fail(p)
    \/ save_file_write(p)
    \/ save_file_write_fail(p)
    \/ save_file_close(p)
    \/ PrintServiceSaved(p)
    \/ IfTimer(p)
    \/ CheckExists(p)
    \/ PrintTimerSaved(p)

Next == (\E p \in Procs : Step(p)) \/ SecondRun

Spec == Init /\ [][Next]_vars

\* the same, the run being scheduled until it ends
FairSpec == Spec /\ WF_vars(Next)

NextEnv == Next \/ EnvRemove

\* the same two runs, while something else may remove service files
SpecEnv == Init /\ [][NextEnv]_vars

\* two invocations for the same name at the same time, no file-system failure
ArgvConc ==
    { a \in ArgvSet : /\ a.name = Some(<<"foo">>)
                      /\ a.working_dir = Some(<<"/", "tmp">>)
                      /\ a.command # None
                      /\ a.description = None }

InitConc ==
    /\ argv \in [Procs -> ArgvConc]
    /\ pc = [p \in Procs |-> "start"]
    /\ dirExists \in BOOLEAN
    /\ files = [path \in Paths |-> None]
    /\ Blank

StepConc(p) ==
    \/ ParseArgs(p)
    \/ Makedirs(p)
    \/ save_file_open(p)
    \/ save_file_write(p)
    \/ save_file_close(p)
    \/ PrintServiceSaved(p)
    \/ IfTimer(p)
    \/ CheckExists(p)
    \/ PrintTimerSaved(p)

NextConc == \E p \in Procs : StepConc(p)

SpecConc == InitConc /\ [][NextConc]_vars

----------------------------------------------------------------------------
(* Vocabulary of the properties *)

\* t occurs in s as a contiguous piece
Contains(s, t) == \E i \in 0..(Len(s) - Len(t)) : SubSeq(s, i + 1, i + Len(t)) = t

\* invocation p made the call, and it succeeded
Did(p, kind, path) == \E i \in DOMAIN ops[p] : ops[p][i] = Op(kind, path, TRUE)

\* a file-system call of invocation p raised
Failed(p) == \E i \in DOMAIN ops[p] : ops[p][i].op # "exists" /\ ~ops[p][i].ok

\* the two unit files of the name on the command line of invocation p
ServicePath(p) == <<argv[p].name[1], "service">>

TimerPath(p) == <<argv[p].name[1], "timer">>

\* no later invocation has started
Latest(p) == p = 2 \/ pc[2] = "wait"

Printed(p, prefix) == \E i \in DOMAIN out[p] : out[p][i][1] = prefix

\* the canonical form of each working directory of the model, worked out by hand:
\* the current directory is /home/u and /lnk is a symbolic link to /tmp
CanonicalOf(w) ==
    CASE w = <<"/", "tmp">> -> <<"/", "tmp">>
      [] w = <<"proj">> -> <<"/", "home", "/", "u", "/", "proj">>
      [] w = <<"/", "lnk", "/", ".">> -> <<"/", "tmp">>
      [] w = <<"..", "/", "lnk", "/", "/", "w">> -> <<"/", "home", "/", "lnk", "/", "w">>

\* the service unit the command line a asks for
ExpectedService(a) ==
    <<"[Unit]\n", "Description=">>
    \o (IF a.description = None THEN <<"A custom systemd service">> ELSE a.description[1])
    \o <<"\n", "After=network.target\n\n[Service]\nType=simple\n", "WorkingDirectory=">>
    \o CanonicalOf(a.working_dir[1])
    \o <<"\n", "ExecStart=">> \o a.command[1]
    \o <<"\n", "Restart=on-failure\n\n[Install]\nWantedBy=default.target\n">>

----------------------------------------------------------------------------
(* C1 *)

\* C1: a run given --timer, with any value, the empty string included, whose
\* service file was written and exists, ends with a timer file that contains
\* "Description=Timer for <name> service" and "OnCalendar=<timer_spec>".
C1_TimerFileForEveryTimerValue ==
    \A p \in Procs :
        ( /\ pc[p] = "done"
          /\ Latest(p)
          /\ RequiredGiven(argv[p])
          /\ argv[p].timer # None
          /\ ~Failed(p)
          /\ Did(p, "close", ServicePath(p))
          /\ files[ServicePath(p)] # None )
        => /\ files[TimerPath(p)] # None
           /\ Contains(files[TimerPath(p)][1],
                       <<"Description=Timer for ">> \o argv[p].name[1] \o <<" service">>)
           /\ Contains(files[TimerPath(p)][1], <<"OnCalendar=">> \o argv[p].timer[1] \o <<"\n">>)

\* C1, for the values of --timer that are not empty: the same
C1_TimerFileForNonEmptyTimerValue ==
    \A p \in Procs :
        ( /\ pc[p] = "done"
          /\ Latest(p)
          /\ RequiredGiven(argv[p])
          /\ argv[p].timer # None
          /\ argv[p].timer[1] # <<>>
          /\ ~Failed(p)
          /\ Did(p, "close", ServicePath(p))
          /\ files[ServicePath(p)] # None )
        => /\ files[TimerPath(p)] # None
           /\ Contains(files[TimerPath(p)][1],
                       <<"Description=Timer for ">> \o argv[p].name[1] \o <<" service">>)
           /\ Contains(files[TimerPath(p)][1], <<"OnCalendar=">> \o argv[p].timer[1] \o <<"\n">>)

----------------------------------------------------------------------------
(* C2 *)

----------------------------------------------------------------------------
(* C3 *)

\* C3: a run without --timer makes no file-system call on a .timer path, its
\* calls name only <name>.service (or the directory), and no step of it
\* changes any timer file.
C3_NoTimerFlagLeavesTimerAlone ==
    /\ [](\A p \in Procs :
            argv[p].timer = None
            => \A i \in DOMAIN ops[p] : ops[p][i].path \in {NoPath, ServicePath(p)})
    /\ [][ (\A p \in Procs : argv[p].timer = None)
           => \A n \in Names : files'[<<n, "timer">>] = files[<<n, "timer">>] ]_vars

\* a run without --timer ended well next to a timer file that was there before
C3_Witness ==
    \E p \in Procs :
        /\ argv[p].timer = None
        /\ pc[p] = "done"
        /\ exitCode[p] = Some(0)
        /\ Did(p, "close", ServicePath(p))
        /\ files[TimerPath(p)] = Some(OldContent)

----------------------------------------------------------------------------
(* C4 *)

\* C4: a run that lacks --name, --working-dir or --command ends with a
\* non-zero exit code and an error message, having made no file-system call:
\* the directory and all files stay as they were.
C4_MissingFlagExitsBeforeIO ==
    /\ [](\A p \in Procs :
            (~RequiredGiven(argv[p]) /\ pc[p] = "done")
            => /\ exitCode[p] # None
               /\ exitCode[p][1] # 0
               /\ err[p] # <<>>
               /\ out[p] = <<>>
               /\ ops[p] = <<>>)
    /\ [][ (\A p \in Procs : ~RequiredGiven(argv[p]))
           => (dirExists' = dirExists /\ files' = files) ]_vars

\* a run without a required flag has ended and the directory is still absent
C4_Witness ==
    \E p \in Procs :
        /\ ~RequiredGiven(argv[p])
        /\ pc[p] = "done"
        /\ exitCode[p] = Some(2)
        /\ ~dirExists

----------------------------------------------------------------------------
(* C5 *)

\* C5: when a run has ended with exit code 0, <name>.service holds exactly the
\* service template filled with this run's description (or the default),
\* canonical working directory and command, whatever the file held before.
C5_ServiceFileIsTemplate ==
    \A p \in Procs :
        (pc[p] = "done" /\ exitCode[p] = Some(0) /\ Latest(p))
        => files[ServicePath(p)] = Some(ExpectedService(argv[p]))

\* a successful run replaced an older service file, with the default description
C5_Witness ==
    \E p \in Procs :
        /\ pc[p] = "done"
        /\ exitCode[p] = Some(0)
        /\ p = 1
        /\ lastWrite[ServicePath(p)] = 1
        /\ argv[p].description = None
        /\ argv[p].working_dir = Some(<<"..", "/", "lnk", "/", "/", "w">>)
        /\ files[ServicePath(p)] # Some(OldContent)

----------------------------------------------------------------------------
(* C6 *)

\* C6: when the tool has run twice on the same command line and both runs
\* ended with exit code 0, every file holds after the second run what it held
\* after the first, and the same files and directory exist.
C6_SecondRunChangesNothing ==
    (pc[2] = "done" /\ exitCode[1] = Some(0) /\ exitCode[2] = Some(0))
    => (files = snap.files /\ dirExists = snap.dir)

\* both runs ended well and both wrote the service file and the timer file
C6_Witness ==
    /\ pc[2] = "done"
    /\ exitCode[1] = Some(0)
    /\ exitCode[2] = Some(0)
    /\ \A p \in Procs : Did(p, "close", ServicePath(p)) /\ Did(p, "close", TimerPath(p))
    /\ lastWrite[TimerPath(2)] = 2

----------------------------------------------------------------------------
(* C7 *)

\* C7: a run given --timer that ends while <name>.service is absent, at the
\* check that follows the service write, has printed the error line naming
\* <name>.service, has not printed the timer confirmation, has made no call on
\* <name>.timer and exits with 0.
C7_MissingServiceIsReported ==
    [][ \A p \in Procs :
          ( /\ pc[p] \in {"if_timer", "exists"}
            /\ argv[p].timer # None
            /\ files[service_filename(p)] = None
            /\ pc'[p] = "done" )
          => /\ Printed(p, "Error: Service file ")'
             /\ Len(out'[p]) = Len(out[p]) + 1
             /\ ~Printed(p, "Timer file saved to ")'
             /\ \A i \in DOMAIN ops'[p] : ops'[p][i].path[2] # "timer"
             /\ exitCode'[p] = Some(0) ]_vars

\* C7, for the values of --timer that are not empty: the same
C7_MissingServiceIsReportedNonEmpty ==
    [][ \A p \in Procs :
          ( /\ pc[p] \in {"if_timer", "exists"}
            /\ argv[p].timer # None
            /\ argv[p].timer[1] # <<>>
            /\ files[service_filename(p)] = None
            /\ pc'[p] = "done" )
          => /\ Printed(p, "Error: Service file ")'
             /\ Len(out'[p]) = Len(out[p]) + 1
             /\ ~Printed(p, "Timer file saved to ")'
             /\ \A i \in DOMAIN ops'[p] : ops'[p][i].path[2] # "timer"
             /\ exitCode'[p] = Some(0) ]_vars

----------------------------------------------------------------------------
(* C8 *)

\* C8: a file-system call that fails is the last call of its run: the run
\* has ended with a message on standard error and a non-zero exit code; when
\* the call was the makedirs or on the service file, "Service file saved" was
\* not printed and no call was made on the timer file; when it was on the
\* timer file, "Timer file saved" was not printed.  A confirmation line is
\* printed only after the write of its file and the close have been done.
C8_FailureIsFatal ==
    \A p \in Procs :
        /\ \A i \in DOMAIN ops[p] :
              (ops[p][i].op # "exists" /\ ~ops[p][i].ok)
              => /\ i = Len(ops[p])
                 /\ pc[p] = "done"
                 /\ exitCode[p] = Some(1)
                 /\ err[p] # <<>>
                 /\ ops[p][i].path[2] # "timer"
                      => /\ ~Printed(p, "Service file saved to ")
                         /\ \A j \in DOMAIN ops[p] : ops[p][j].path[2] # "timer"
                 /\ ops[p][i].path[2] = "timer" => ~Printed(p, "Timer file saved to ")
        /\ Printed(p, "Service file saved to ")
              => Did(p, "write", ServicePath(p)) /\ Did(p, "close", ServicePath(p))
        /\ Printed(p, "Timer file saved to ")
              => Did(p, "write", TimerPath(p)) /\ Did(p, "close", TimerPath(p))

\* the write of the timer file failed after the service file had been saved
C8_Witness ==
    \E p \in Procs :
        /\ ops[p] # <<>>
        /\ ops[p][Len(ops[p])] = Op("write", TimerPath(p), FALSE)
        /\ Printed(p, "Service file saved to ")
        /\ pc[p] = "done"

----------------------------------------------------------------------------
(* C9 *)

\* the state of the run in the terms of the specification's state machine
Phase(p) ==
    IF RequiredGiven(argv[p]) /\ Did(p, "write", TimerPath(p)) THEN "TIMER_WRITTEN"
    ELSE IF RequiredGiven(argv[p]) /\ pc[p] = "done" /\ exitCode[p] = Some(0)
         THEN "TIMER_SKIPPED"
    ELSE IF RequiredGiven(argv[p]) /\ Did(p, "write", ServicePath(p)) THEN "SERVICE_WRITTEN"
    ELSE "START"

Terminal == {"TIMER_WRITTEN", "TIMER_SKIPPED"}

Edges == { <<"START", "SERVICE_WRITTEN">>,
           <<"SERVICE_WRITTEN", "TIMER_WRITTEN">>,
           <<"SERVICE_WRITTEN", "TIMER_SKIPPED">> }

\* how many calls of the kind invocation p made on the path, failed ones included
Count(p, kind, path) ==
    Cardinality({i \in DOMAIN ops[p] : ops[p][i].op = kind /\ ops[p][i].path = path})

\* C9: every run that has passed argument validation and has ended is in
\* TIMER_WRITTEN or TIMER_SKIPPED.
C9_EveryRunEndsInTerminalState ==
    \A p \in Procs :
        (pc[p] = "done" /\ RequiredGiven(argv[p])) => Phase(p) \in Terminal

\* C9, amended: a run changes state only along START -> SERVICE_WRITTEN ->
\* (TIMER_WRITTEN | TIMER_SKIPPED), writes each file at most once, and ends;
\* when it has passed argument validation and no file-system call of it has
\* failed, it ends in TIMER_WRITTEN or TIMER_SKIPPED.
C9_StateMachineUnlessFailure ==
    /\ [][ \A p \in Procs :
             Phase(p)' # Phase(p) => <<Phase(p), Phase(p)'>> \in Edges ]_vars
    /\ [](\A p \in Procs : \A path \in Paths :
             Count(p, "open", path) <= 1 /\ Count(p, "write", path) <= 1)
    /\ [](\A p \in Procs :
             (pc[p] = "done" /\ RequiredGiven(argv[p]) /\ ~Failed(p))
             => Phase(p) \in Terminal)
    /\ <>(\A p \in Procs : pc[p] = "done")

\* a second run has ended in TIMER_WRITTEN after a first that was skipped
C9_Witness ==
    /\ pc[2] = "done"
    /\ Phase(2) = "TIMER_WRITTEN"
    /\ ~Failed(2)
    /\ Phase(1) = "SERVICE_WRITTEN"
    /\ Failed(1)

----------------------------------------------------------------------------
(* C10 *)

\* the body invocation p renders for the path
BodyFor(p, path) == IF path[2] = "service" THEN service_content(p) ELSE timer_content(p)

BothDone == \A p \in Procs : pc[p] = "done"

\* C10: when both invocations have ended, each file that was written holds
\* exactly the body of the invocation whose write to it came last.
C10_LastWriterWins ==
    BothDone =>
        \A path \in Paths :
            lastWrite[path] # 0 => files[path] = Some(BodyFor(lastWrite[path], path))

\* C10, amended: when both invocations have ended, each file that was written
\* begins with the complete body of the invocation whose write to it came
\* last; it holds exactly that body unless the other invocation wrote a longer
\* body to it, and then at most the tail of that longer body follows.
C10_LastWriterIsPrefix ==
    BothDone =>
        \A path \in Paths :
            lastWrite[path] # 0 =>
                LET w == lastWrite[path]
                    o == 3 - w
                    mine == BodyFor(w, path)
                IN  \/ files[path] = Some(mine)
                    \/ /\ Did(o, "write", path)
                       /\ Len(BodyFor(o, path)) > Len(mine)
                       /\ files[path] = Some(mine \o SubSeq(BodyFor(o, path), Len(mine) + 1,
                                                            Len(BodyFor(o, path))))

\* both ended, and the timer file is the last writer's body followed by the
\* tail of the other's
C10_Witness ==
    /\ BothDone
    /\ \E path \in Paths :
          /\ path[2] = "timer"
          /\ lastWrite[path] # 0
          /\ Did(3 - lastWrite[path], "write", path)
          /\ files[path] # Some(BodyFor(lastWrite[path], path))

====
